---- MODULE Spec2Model ----
(***************************************************************************)
(* A model of the retrieval-augmented query pipeline of the Leadership     *)
(* Insight Agent: AgentService.run -> run_agent -> planner_node ->         *)
(* tool_executor_node -> synthesizer_node, with the remote capabilities    *)
(* (Bedrock LLM, Titan embedder, Qdrant index, CSV store, matplotlib) as   *)
(* the environment, whose outcomes are drawn nondeterministically.         *)
(*                                                                         *)
(* Representation of Python values:                                        *)
(*   - Optional[str]: None is <<>>, a string s is <<s>>.                   *)
(*   - the query is a sequence of one-character strings, so that           *)
(*     str.lower() and the substring test `kw in lower` are computed.      *)
(*   - a text assembled by an f-string is the sequence of its segments;    *)
(*     it is empty iff every segment is "".                                *)
(*   - a JSON string produced by json.dumps is the record of the object    *)
(*     it encodes; the empty string "" is the record EmptyString.          *)
(*   - a dict is a function from its keys.                                 *)
(***************************************************************************)
EXTENDS Integers, Sequences, FiniteSets, TLC

VARIABLES
    pc,        \* position of the request inside AgentService.run / the node harness
    state,     \* the AgentState threaded through the graph
    pre,       \* the AgentState the last node received (history)
    last,      \* name of the last node that ran (history)
    env,       \* what the environment answered the planner's LLM call or the
               \* tool executor's invocation, whichever came last (history)
    escaped,   \* the exception that left the last node, None if it returned
    calls,     \* remote calls made so far for this request, per capability
    invoked,   \* the engine the tool executor invoked, "none" before
    routed,    \* the plan the planner returned (history), None before
    response,  \* the dict AgentService.run returns, NoResponse before
    stages,    \* the graph nodes entered so far for this request, in order (history)
    metrics_file, \* the records of logs/metrics.jsonl, oldest first
    qdrant,    \* the Qdrant collection: whether it exists and its points
    call,      \* the library operation called last and its arguments (history)
    result,    \* what that operation returned or raised, NoResult before
    clients,   \* the module globals _bedrock_client, _embedder and _store of the
               \* process: None, or the handle stored
    created,   \* client handles created so far in the process, per capability
    plot_file, \* the chart stored at PLOT_OUTPUT_PATH: the metric it draws, None before
    threads,   \* per thread of the process: where its request stands and its locals
    runs       \* calls of run() started, completed, and completed without a
               \* metrics record, and what the latest one returned (history)

vars == <<pc, state, pre, last, env, escaped, calls, invoked, routed, response,
          stages, metrics_file, qdrant, call, result,
          clients, created, plot_file, threads, runs>>

\* The variables of a process that serves requests on several threads.
procVars == <<clients, created, plot_file, threads, runs>>

\* The variables of one request through AgentService.run.
pipeVars == <<pc, state, pre, last, env, escaped, calls, invoked, routed, response,
              stages, metrics_file>>

---------------------------------------------------------------------------
(* Python values *)

None == <<>>

Some(v) == <<v>>

\* Python truthiness of an Optional[str]: None and "" are falsy.
Truthy(o) == o # None /\ o[1] # ""

\* A text given by its segments is the empty string iff all segments are "".
IsEmptyText(t) == \A i \in 1..Len(t) : t[i] = ""

\* Mutant of DictSet: {k: v}, the entries of d are not carried over.
DictReplace(d, k, v) == [x \in {k} |-> v]

\* {**d, k: v}
DictSet(d, k, v) == [x \in (DOMAIN d) \cup {k} |-> IF x = k THEN v ELSE d[x]]

---------------------------------------------------------------------------
(* Bounds of the model *)

\* A query is 1 to MaxWords words of Vocabulary, joined by single spaces.
MaxWords == 2

\* The vector index holds at most MaxPoints points.
MaxPoints == 2

\* One upsert is given at most MaxBatch chunks and at most MaxBatch vectors.
MaxBatch == 2

\* The CSV directory holds at most MaxFiles files.
MaxFiles == 2

\* An evaluated sample has at most MaxChunks retrieved chunks.
MaxChunks == 3

\* The CSV files together hold at most MaxRows rows.
MaxRows == 2

---------------------------------------------------------------------------
(* Characters and str.lower() *)

LowerChar(c) ==
    CASE c = "P" -> "p"
      [] c = "C" -> "c"
      [] c = "R" -> "r"
      [] OTHER -> c

\* query.lower()
Lower(s) == [i \in 1..Len(s) |-> LowerChar(s[i])]

\* `kw in s` for Python strings
Contains(s, kw) ==
    \E i \in 0..(Len(s) - Len(kw)) :
        \A j \in 1..Len(kw) : s[i + j] = kw[j]

\* any(kw in s for kw in kws)
AnyKeywordIn(s, kws) == \E kw \in kws : Contains(s, kw)

---------------------------------------------------------------------------
(* planner.py: keyword sets *)

_PLOT_KEYWORDS ==
    { <<"p","l","o","t">>,
      <<"c","h","a","r","t">>,
      <<"g","r","a","p","h">>,
      <<"v","i","s","u","a","l","i">>,
      <<"s","h","o","w"," ","t","r","e","n","d">>,
      <<"b","a","r"," ","c","h","a","r","t">>,
      <<"l","i","n","e"," ","c","h","a","r","t">> }

_FINANCIAL_KEYWORDS ==
    { <<"r","e","v","e","n","u","e">>,
      <<"g","r","o","w","t","h">>,
      <<"c","o","m","p","a","r","e">>,
      <<"c","o","m","p","a","r","i","s","o","n">>,
      <<"t","r","e","n","d">>,
      <<"i","n","c","o","m","e">>,
      <<"p","r","o","f","i","t">>,
      <<"o","p","e","r","a","t","i","n","g">>,
      <<"y","e","a","r"," ","o","v","e","r"," ","y","e","a","r">>,
      <<"y","o","y">>,
      <<"f","i","s","c","a","l">>,
      <<"e","a","r","n","i","n","g","s">>,
      <<"s","a","l","e","s">>,
      <<"m","a","r","g","i","n">> }

\* The three tools the router may name.
ToolNames == {"retriever", "financial", "plot"}

\* The intent enum of the data model.
IntentEnum == {"retriever", "financial", "plot", "unknown"}

\* Mutant of _keyword_route: the financial set is tested first.
KeywordRouteFinancialFirst(query) ==
    LET lower == Lower(query) IN
    IF AnyKeywordIn(lower, _FINANCIAL_KEYWORDS) THEN Some("financial")
    ELSE IF AnyKeywordIn(lower, _PLOT_KEYWORDS) THEN Some("plot")
    ELSE None

\* _keyword_route(query): Some(tool) or None
_keyword_route(query) ==
    LET lower == Lower(query) IN
    IF AnyKeywordIn(lower, _PLOT_KEYWORDS) THEN Some("plot")
    ELSE IF AnyKeywordIn(lower, _FINANCIAL_KEYWORDS) THEN Some("financial")
    ELSE None

---------------------------------------------------------------------------
(* Environment: what the remote capabilities can answer *)

\* str(exc) of an exception raised by client construction or by the tool
\* framework; an exception built without arguments prints as "".
ExcMsgs == {"", "DB unreachable"}

\* str(exc) of an exception raised inside an engine (botocore's ClientError,
\* FileNotFoundError, ValueError: all carry a message).
EngineExcMsgs == {"DB unreachable"}

\* Values of round(time.perf_counter() - t0, 3): every timer reads one tick;
\* no branch of the code looks at an elapsed time.
Elapsed == {1}

\* str.lower() on the strings an LLM may put in the "tool" field.
LowerStr(s) ==
    CASE s = "Plot" -> "plot"
      [] s = "FINANCIAL" -> "financial"
      [] OTHER -> s

\* The "tool" field of the router LLM's JSON object: absent, present with a
\* value that is not a string (null, a number), or present with a string.
ToolFields ==
    { [present |-> FALSE, isstr |-> FALSE, val |-> ""],
      [present |-> TRUE,  isstr |-> FALSE, val |-> ""] }
    \cup [present : {TRUE}, isstr : {TRUE},
          val : {"retriever", "financial", "plot", "Plot", "FINANCIAL", "chart", ""}]

\* What bedrock_client.converse gives the router:
\*   raise      converse raised
\*   malformed  the response lacks output/message/content[0]/text
\*   notjson    json.loads(text) raised
\*   nonobject  the text is valid JSON that is not an object (a list, a string)
\*   object     the text is a JSON object
RouterReplies ==
    [kind : {"raise", "malformed", "notjson", "nonobject"},
     tool : {[present |-> FALSE, isstr |-> FALSE, val |-> ""]},
     reason : {None}]
    \cup [kind : {"object"}, tool : ToolFields, reason : {None, Some("llm reason")}]

\* The environment of one planner_node call: whether boto3.client(...) raised
\* (Some(str(exc))), what converse answered, and the elapsed time.
PlannerEnvs ==
    [client : {None} \cup {Some(m) : m \in ExcMsgs},
     reply : RouterReplies,
     elapsed : Elapsed]

---------------------------------------------------------------------------
(* planner.py: _llm_route and planner_node *)

\* The value of the `except Exception` branch of _llm_route.
RouteFallback == [tool |-> "retriever", reason |-> "Fallback due to LLM routing error"]

\* Mutant of _llm_route: the check `tool not in {...}` is missing.
LlmRouteNoEnumCheck(reply) ==
    IF reply.kind # "object" THEN RouteFallback
    ELSE IF reply.tool.present /\ ~reply.tool.isstr THEN RouteFallback
    ELSE
        LET tool == IF reply.tool.present THEN LowerStr(reply.tool.val) ELSE "retriever"
            reason == IF reply.reason = None THEN "LLM classification" ELSE reply.reason[1]
        IN [tool |-> tool, reason |-> reason]

\* _llm_route(query, bedrock_client), given what converse answers.
\* Every exception inside the try block yields RouteFallback:
\* converse raising, a missing key, json.loads failing, parsed.get on a
\* non-object, .lower() on a non-string.
_llm_route(reply) ==
    IF reply.kind # "object" THEN RouteFallback
    ELSE IF reply.tool.present /\ ~reply.tool.isstr THEN RouteFallback
    ELSE
        LET tool == IF reply.tool.present THEN LowerStr(reply.tool.val) ELSE "retriever"
            reason == IF reply.reason = None THEN "LLM classification" ELSE reply.reason[1]
        IN [tool |-> IF tool \notin ToolNames THEN "retriever" ELSE tool,
            reason |-> reason]

\* Mutant of planner_node: without a keyword match the LLM is not consulted
\* and tool_name, still None, is written to the plan.
PlannerNoLlmFallback(s, e) ==
    LET kw == _keyword_route(s.query) IN
    [raised |-> FALSE,
     exc |-> "",
     out |-> [s EXCEPT !.plan = IF kw # None THEN kw[1] ELSE "None",
                       !.plan_reasoning = "Keyword-based routing",
                       !.tools_used = <<>>,
                       !.sources = <<>>,
                       !.image_path = None,
                       !.error = None,
                       !.metrics = DictSet(s.metrics, "planner_latency_s", e.elapsed)],
     llm_calls |-> 0]

\* planner_node(state) under environment e. The result says whether an
\* exception left the node (raised, exc), the returned state (out) and the
\* number of converse calls made (llm_calls).
planner_node(s, e) ==
    LET kw == _keyword_route(s.query) IN
    IF kw = None /\ e.client # None
    THEN \* boto3.client(...) is called outside any try block
         [raised |-> TRUE, exc |-> e.client[1], out |-> s, llm_calls |-> 0]
    ELSE
        LET route == IF kw # None
                     THEN [tool |-> kw[1], reason |-> "Keyword-based routing"]
                     ELSE _llm_route(e.reply)
        IN [raised |-> FALSE,
            exc |-> "",
            out |-> [s EXCEPT !.plan = route.tool,
                              !.plan_reasoning = route.reason,
                              !.tools_used = <<>>,
                              !.sources = <<>>,
                              !.image_path = None,
                              !.error = None,
                              !.metrics = DictSet(s.metrics, "planner_latency_s", e.elapsed)],
            llm_calls |-> IF kw = None THEN 1 ELSE 0]

---------------------------------------------------------------------------
(* qdrant_store.py and retriever_tool.py: the Retrieval Engine *)

\* config.QDRANT_TOP_K
QDRANT_TOP_K == 5

\* The points the index may hold.
Points == 1..MaxPoints

\* Cosine similarity to the query of the vector embedded for chunk p, in
\* units of 10^-5.
RawScore(p) == IF p % 2 = 1 THEN 91237 ELSE 69996

\* round(float(hit.score), 4), in units of 10^-5.
Round4(x) == ((x + 5) \div 10) * 10

\* hit.payload of a point, as upsert wrote it: the chunk's metadata and its text.
Payload(p) ==
    [text |-> "chunk text",
     company |-> "Microsoft",
     year |-> "2023",
     document_type |-> "10K",
     section |-> "Risk Factors",
     source_file |-> "MSFT_FY23Q4_10K.docx",
     chunk_index |-> p]

\* A scored point as the client returns it: the point stored under `id` with
\* the vector embedded for chunk v and the payload of chunk c.
Hit(id, v, c) == [id |-> id, score |-> RawScore(v), payload |-> Payload(c)]

\* The point the pipeline's index holds for chunk p.
PointHit(p) == Hit(p, p, p)

\* One entry of the list QdrantStore.search returns.
SearchResult(hit) ==
    [id |-> hit.id,
     score |-> Round4(hit.score),
     text |-> hit.payload.text,
     metadata |-> [k \in (DOMAIN hit.payload) \ {"text"} |-> hit.payload[k]]]

\* The hit lists query_points may return for an index holding the points
\* `index` with limit k: the k nearest points, nearest first; points of equal
\* score come in either order.
QueryPoints(index, k) ==
    LET n == IF Cardinality(index) < k THEN Cardinality(index) ELSE k IN
    { h \in [1..n -> index] :
        /\ \A i, j \in 1..n : i # j => h[i] # h[j]
        /\ \A i \in 1..(n - 1) : RawScore(h[i]) >= RawScore(h[i + 1])
        /\ \A q \in index : (\A i \in 1..n : h[i] # q) =>
               \A i \in 1..n : RawScore(h[i]) >= RawScore(q) }

\* create_collection(recreate) on the collection q.
create_collection(q, recreate) ==
    IF q.exists /\ ~recreate THEN q ELSE [exists |-> TRUE, points |-> <<>>]

\* Mutant of upsert: the collection is created before the lengths are compared.
UpsertCreatesFirst(q, chunks, embeddings, client_ok) ==
    LET q1 == IF ~q.exists THEN create_collection(q, FALSE) ELSE q IN
    IF Len(chunks) # Len(embeddings)
    THEN [raised |-> TRUE, exc |-> "ValueError", value |-> 0, qdrant |-> q1]
    ELSE [raised |-> ~client_ok, exc |-> IF client_ok THEN "" ELSE "DB unreachable",
          value |-> IF client_ok THEN Len(chunks) ELSE 0,
          qdrant |-> IF client_ok
                     THEN [q1 EXCEPT !.points = @ \o
                             [i \in 1..Len(chunks) |->
                                [vector |-> embeddings[i], chunk |-> chunks[i]]]]
                     ELSE q1]

\* QdrantStore.upsert(chunks, embeddings) on the collection q; a chunk and a
\* vector are named by the chunk they belong to. client_ok says whether the
\* client's upsert and count calls succeed. The result carries the collection
\* afterwards.
upsert(q, chunks, embeddings, client_ok) ==
    IF Len(chunks) # Len(embeddings)
    THEN [raised |-> TRUE, exc |-> "ValueError", value |-> 0, qdrant |-> q]
    ELSE LET q1 == IF ~q.exists THEN create_collection(q, FALSE) ELSE q
             points == [i \in 1..Len(chunks) |->
                          [vector |-> embeddings[i], chunk |-> chunks[i]]]
         IN IF ~client_ok
            THEN [raised |-> TRUE, exc |-> "DB unreachable", value |-> 0, qdrant |-> q1]
            ELSE [raised |-> FALSE, exc |-> "", value |-> Len(points),
                  qdrant |-> [q1 EXCEPT !.points = @ \o points]]

\* The hit lists the client's query_points may return for the collection q
\* with limit k: the k nearest stored points, nearest first; points of equal
\* score come in either order. A stored point is identified by its position.
StoreQueryPoints(q, k) ==
    LET ids == 1..Len(q.points)
        n == IF Len(q.points) < k THEN Len(q.points) ELSE k
        Score(i) == RawScore(q.points[i].vector)
    IN { [i \in 1..n |-> Hit(h[i], q.points[h[i]].vector, q.points[h[i]].chunk)] :
           h \in { g \in [1..n -> ids] :
                     /\ \A i, j \in 1..n : i # j => g[i] # g[j]
                     /\ \A i \in 1..(n - 1) : Score(g[i]) >= Score(g[i + 1])
                     /\ \A p \in ids : (\A i \in 1..n : g[i] # p) =>
                            \A i \in 1..n : Score(g[i]) >= Score(p) } }

\* Mutant of search: the results are returned last hit first.
SearchReversed(hits) == [i \in 1..Len(hits) |-> SearchResult(hits[Len(hits) + 1 - i])]

\* QdrantStore.search(query_vector, top_k) given the hits of the client.
search(hits) == [i \in 1..Len(hits) |-> SearchResult(hits[i])]

\* config.EMBEDDING_DIMENSION
EMBEDDING_DIMENSION == 1024

\* The lengths of the vector the embedding model may return.
VectorDims == {EMBEDDING_DIMENSION, 512}

\* embedder.embed_query(query) under outcome o: the Bedrock call raises, or
\* the model returns a vector of length o.dim, which embed_texts compares
\* with self.dimension.
embed_query(o) ==
    IF o.kind = "embed_raise"
    THEN [raised |-> TRUE, exc |-> o.msg, dim |-> 0]
    ELSE IF o.dim # EMBEDDING_DIMENSION
    THEN [raised |-> TRUE, exc |-> "Expected dim 1024, got 512", dim |-> 0]
    ELSE [raised |-> FALSE, exc |-> "", dim |-> o.dim]

\* How the client's query_points ends inside QdrantStore.search:
\*   none            search was not reached
\*   ok              it returned the hits
\*   raise           it raised an exception other than AttributeError
\*   missing         the client has no query_points (qdrant-client < 1.12): the
\*                   attribute lookup raised AttributeError before any request
\*   AttributeError  the request was made and an AttributeError came out of
\*                   the call or of reading response.points
\* After missing and AttributeError, search calls the client's legacy search.
QueryPointsEnds == {"none", "ok", "raise", "missing", "AttributeError"}

\* The number of vector-search requests QdrantStore.search makes to the client
\* when query_points ends as qp.
SearchRequests(qp) ==
    CASE qp = "none" -> 0
      [] qp \in {"ok", "raise", "missing"} -> 1
      [] OTHER -> 2

\* What the engine behind retriever_tool can do:
\*   embed_raise   _get_embedder(), _get_store() or the embedding call raised
\*   search_raise  a vector of length dim came back; store.search raised:
\*                 query_points did, or the legacy search after it
\*   hits          a vector of length dim came back; the client answers a
\*                 search with the hit list, from query_points or from the
\*                 legacy search after it
RetrieverOutcomes ==
    [kind : {"embed_raise"}, msg : EngineExcMsgs, hits : {<<>>}, latency : {0}, dim : {0},
     query_points : {"none"}]
    \cup [kind : {"search_raise"}, msg : EngineExcMsgs, hits : {<<>>}, latency : {0},
          dim : {EMBEDDING_DIMENSION}, query_points : {"raise", "missing", "AttributeError"}]
    \cup [kind : {"hits"}, msg : {""}, hits : {<<>>}, latency : {0},
          dim : VectorDims \ {EMBEDDING_DIMENSION}, query_points : {"none"}]
    \cup { [kind |-> "hits", msg |-> "", latency |-> 0, dim |-> EMBEDDING_DIMENSION,
             query_points |-> qp,
             hits |-> [i \in 1..Len(h) |-> PointHit(h[i])]] :
             qp \in {"ok", "missing", "AttributeError"},
             h \in UNION { QueryPoints(index, QDRANT_TOP_K) : index \in SUBSET Points } }

\* retriever_tool(query): the JSON it returns; it catches every exception.
\* embed_calls and search_calls count the requests it made to the embedding
\* model and to the vector index.
retriever_tool(query, o) ==
    LET query_vector == embed_query(o) IN
    IF query_vector.raised
    THEN [raised |-> FALSE, exc |-> "", embed_calls |-> 1, search_calls |-> 0,
          json |-> [status |-> "error", message |-> query_vector.exc, chunks |-> <<>>]]
    ELSE IF o.kind = "search_raise"
    THEN [raised |-> FALSE, exc |-> "",
          embed_calls |-> 1, search_calls |-> SearchRequests(o.query_points),
          json |-> [status |-> "error", message |-> o.msg, chunks |-> <<>>]]
    ELSE LET results == search(o.hits) IN
         IF results = <<>>
         THEN [raised |-> FALSE, exc |-> "",
               embed_calls |-> 1, search_calls |-> SearchRequests(o.query_points),
               json |-> [status |-> "empty", message |-> "No relevant documents found.",
                         chunks |-> <<>>]]
         ELSE [raised |-> FALSE, exc |-> "",
               embed_calls |-> 1, search_calls |-> SearchRequests(o.query_points),
               json |-> [status |-> "ok",
                         query |-> query,
                         retrieval_latency_s |-> o.latency,
                         chunk_count |-> Len(results),
                         chunks |-> results]]

---------------------------------------------------------------------------
(* financial_tool.py: fiscal years and year-over-year growth *)

Digits == {"0", "1", "2", "3", "4", "5", "6", "7", "8", "9"}

\* The code point order of the digit characters.
DigitOrd(c) ==
    CASE c = "0" -> 0 [] c = "1" -> 1 [] c = "2" -> 2 [] c = "3" -> 3 [] c = "4" -> 4
      [] c = "5" -> 5 [] c = "6" -> 6 [] c = "7" -> 7 [] c = "8" -> 8 [] OTHER -> 9

\* s[i], s[i+1], ..., s[i+n-1] exist and are digits.
DigitsAt(s, i, n) == \A j \in 0..(n - 1) : i + j <= Len(s) /\ s[i + j] \in Digits

\* The length of the greedy match of \d{2,4} at position i, 0 if it fails.
DigitRun(s, i) ==
    IF DigitsAt(s, i, 4) THEN 4
    ELSE IF DigitsAt(s, i, 3) THEN 3
    ELSE IF DigitsAt(s, i, 2) THEN 2
    ELSE 0

\* FY(\d{2,4}) with re.IGNORECASE matches at position i.
FYMatchAt(s, i) ==
    /\ i + 1 <= Len(s)
    /\ s[i] \in {"F", "f"}
    /\ s[i + 1] \in {"Y", "y"}
    /\ DigitRun(s, i + 2) >= 2

\* _extract_year_from_filename(filename): the digits after the leftmost
\* match of FY, "20" put before two digits, three or four digits as they are.
_extract_year_from_filename(filename) ==
    IF \E i \in 1..Len(filename) : FYMatchAt(filename, i)
    THEN LET i == CHOOSE k \in 1..Len(filename) :
                      /\ FYMatchAt(filename, k)
                      /\ \A j \in 1..(k - 1) : ~FYMatchAt(filename, j)
             y == SubSeq(filename, i + 2, i + 1 + DigitRun(filename, i + 2))
         IN Some(IF Len(y) = 2 THEN <<"2", "0">> \o y ELSE y)
    ELSE None

\* a < b for two strings of digits, as Python compares str: by the first
\* character that differs, a proper prefix first.
StrLess(a, b) ==
    \E k \in 1..(Len(a) + 1) :
        /\ \A j \in 1..(k - 1) : j <= Len(b) /\ a[j] = b[j]
        /\ \/ k = Len(a) + 1 /\ Len(b) >= k
           \/ k <= Len(a) /\ k <= Len(b) /\ DigitOrd(a[k]) < DigitOrd(b[k])

\* sorted(keys) for a set of digit strings.
Sorted(keys) ==
    CHOOSE seq \in [1..Cardinality(keys) -> keys] :
        \A i, j \in 1..Cardinality(keys) : i < j => StrLess(seq[i], seq[j])

\* N / D for D > 0 rounded to the nearest integer, a tie to the even one.
RoundDiv(N, D) ==
    LET q == N \div D
        r == N - q * D
    IN IF 2 * r < D THEN q
       ELSE IF 2 * r > D THEN q + 1
       ELSE IF q % 2 = 0 THEN q ELSE q + 1

\* abs(x)
Abs(x) == IF x < 0 THEN 0 - x ELSE x

\* round(((curr_val - prev_val) / abs(prev_val)) * 100, 2), in hundredths of
\* a percent.
YoyPct(prev_val, curr_val) == RoundDiv((curr_val - prev_val) * 10000, Abs(prev_val))

\* Python truthiness of an Optional number: None and 0 are falsy.
TruthyNum(o) == o # None /\ o[1] # 0

\* _compute_yoy(values_by_year): the dict from each year to its growth over
\* the year before it in sorted(keys), None where there is none.
_compute_yoy(values_by_year) ==
    LET years == Sorted(DOMAIN values_by_year)
        Pos(year) == CHOOSE i \in 1..Len(years) : years[i] = year
    IN [year \in DOMAIN values_by_year |->
          IF Pos(year) = 1
          THEN None
          ELSE LET prev_val == values_by_year[years[Pos(year) - 1]]
                   curr_val == values_by_year[year]
               IN IF TruthyNum(prev_val) /\ TruthyNum(curr_val)
                  THEN Some(YoyPct(prev_val[1], curr_val[1]))
                  ELSE None]

\* any(kw in query_lower for kw in ["income", "profit", "operating"])
MetricLabel(query) ==
    IF AnyKeywordIn(Lower(query),
                    { <<"i","n","c","o","m","e">>,
                      <<"p","r","o","f","i","t">>,
                      <<"o","p","e","r","a","t","i","n","g">> })
    THEN "Operating Income"
    ELSE "Revenue"

\* re.sub(r"[^\d.\-]", "", str(value))
Cleaned(value) == SelectSeq(value, LAMBDA c : c \in Digits \cup {".", "-"})

\* float() accepts the cleaned string: an optional minus sign, then digits
\* with at most one point among them, at least one digit.
IsFloat(cleaned) ==
    LET body == IF cleaned # <<>> /\ cleaned[1] = "-" THEN Tail(cleaned) ELSE cleaned IN
    /\ \A i \in 1..Len(body) : body[i] # "-"
    /\ Cardinality({i \in 1..Len(body) : body[i] = "."}) <= 1
    /\ \E i \in 1..Len(body) : body[i] \in Digits

\* The number a string of digits denotes.
RECURSIVE DigitsValue(_)
DigitsValue(ds) ==
    IF ds = <<>> THEN 0
    ELSE DigitsValue(SubSeq(ds, 1, Len(ds) - 1)) * 10 + DigitOrd(ds[Len(ds)])

\* float(cleaned) in hundredths, for a string with at most two decimals.
FloatValue(cleaned) ==
    LET neg == cleaned[1] = "-"
        body == IF neg THEN Tail(cleaned) ELSE cleaned
        dot == IF \E i \in 1..Len(body) : body[i] = "."
               THEN CHOOSE i \in 1..Len(body) : body[i] = "."
               ELSE Len(body) + 1
        whole == SubSeq(body, 1, dot - 1)
        frac == SubSeq(body, dot + 1, Len(body))
        cents == IF Len(frac) = 0 THEN 0
                 ELSE IF Len(frac) = 1 THEN DigitOrd(frac[1]) * 10
                 ELSE DigitOrd(frac[1]) * 10 + DigitOrd(frac[2])
        magnitude == DigitsValue(whole) * 100 + cents
    IN IF neg THEN 0 - magnitude ELSE magnitude

\* _parse_numeric(value): None for an empty cleaned string and for one
\* float() rejects.
_parse_numeric(value) ==
    LET cleaned == Cleaned(value) IN
    IF cleaned # <<>> /\ IsFloat(cleaned) THEN Some(FloatValue(cleaned)) ELSE None

\* Mutant of RowStep: a later positive value replaces an earlier one.
RowStepKeepsLast(values_by_year, row) ==
    LET year == _extract_year_from_filename(row.file)
        val == _parse_numeric(row.cell)
    IN IF year # None /\ val # None /\ val[1] > 0
       THEN [y \in (DOMAIN values_by_year) \cup {year[1]} |->
               IF y = year[1] THEN val[1] ELSE values_by_year[y]]
       ELSE values_by_year

\* One step of the loop over the rows: a row of a file without a year is
\* skipped; a value is kept when it parses to a positive number and the year
\* has no value yet or a smaller one.
RowStep(values_by_year, row) ==
    LET year == _extract_year_from_filename(row.file)
        val == _parse_numeric(row.cell)
    IN IF year = None THEN values_by_year
       ELSE IF val # None /\ val[1] > 0
               /\ (year[1] \notin DOMAIN values_by_year \/ val[1] > values_by_year[year[1]])
       THEN [y \in (DOMAIN values_by_year) \cup {year[1]} |->
               IF y = year[1] THEN val[1] ELSE values_by_year[y]]
       ELSE values_by_year

\* The loop of _run_financial_analysis over df.iterrows(): values_by_year
\* after the rows, for one matching column. The empty dict is <<>>.
RECURSIVE CollectValues(_)
CollectValues(rows) ==
    IF rows = <<>> THEN <<>>
    ELSE RowStep(CollectValues(SubSeq(rows, 1, Len(rows) - 1)), rows[Len(rows)])

\* _run_financial_analysis(query) on the CSV data `csv`:
\*   missing  no CSV file: _load_all_csvs raises FileNotFoundError
\*   loaded   the combined frame has the rows csv.rows; csv.matching says
\*            whether a column matches the metric
_run_financial_analysis(query, csv) ==
    IF csv.kind = "missing"
    THEN [raised |-> TRUE, exc |-> "FileNotFoundError", value |-> [status |-> "error"]]
    ELSE IF ~csv.matching
    THEN [raised |-> FALSE, exc |-> "", value |-> [status |-> "no_data"]]
    ELSE LET values_by_year == CollectValues(csv.rows) IN
         IF DOMAIN values_by_year = {}
         THEN [raised |-> FALSE, exc |-> "", value |-> [status |-> "no_numeric_data"]]
         ELSE [raised |-> FALSE, exc |-> "",
               value |-> [status |-> "ok",
                          company |-> "Microsoft",
                          metric |-> MetricLabel(query),
                          values_by_year |-> values_by_year,
                          yoy_growth_pct |->
                              _compute_yoy([y \in DOMAIN values_by_year |->
                                              Some(values_by_year[y])])]]

---------------------------------------------------------------------------
(* financial_tool.py and plot_tool.py, as far as the tool executor sees them *)

\* What _run_financial_analysis can do:
\*   csv_missing      _load_all_csvs raised FileNotFoundError
\*   raise            anything else raised (all CSVs unreadable, pandas)
\*   no_data          no column matches the metric
\*   no_numeric_data  no positive value parsed
\*   ok               a trend was computed
FinancialOutcomes ==
    [kind : {"csv_missing", "raise"}, msg : EngineExcMsgs, latency : {0}]
    \cup [kind : {"no_data", "no_numeric_data", "ok"}, msg : {""}, latency : {0}]

\* financial_tool(query): the JSON it returns; it catches every exception.
financial_tool(query, o) ==
    [raised |-> FALSE, exc |-> "",
     json |->
        CASE o.kind \in {"csv_missing", "raise"} ->
               [status |-> "error", message |-> o.msg]
          [] o.kind = "no_data" ->
               [status |-> "no_data",
                message |-> "No columns matching the metric found in CSVs.",
                analysis_latency_s |-> o.latency]
          [] o.kind = "no_numeric_data" ->
               [status |-> "no_numeric_data",
                message |-> "Could not parse numeric values from matching columns.",
                analysis_latency_s |-> o.latency]
          [] OTHER ->
               [status |-> "ok", company |-> "Microsoft", metric |-> MetricLabel(query),
                analysis_latency_s |-> o.latency]]

\* config.PLOT_OUTPUT_PATH
PLOT_OUTPUT_PATH == "static/trend.png"

\* What plot_tool's body can do:
\*   csv_missing  _collect_values raised FileNotFoundError
\*   raise        _generate_chart (rendering, savefig) raised
\*   no_data      no positive value collected
\*   ok           the chart was written
PlotOutcomes ==
    [kind : {"csv_missing", "raise"}, msg : EngineExcMsgs, latency : {0}]
    \cup [kind : {"no_data", "ok"}, msg : {""}, latency : {0}]

\* plot_tool(query): the JSON it returns; it catches every exception.
plot_tool(query, o) ==
    [raised |-> FALSE, exc |-> "",
     json |->
        CASE o.kind \in {"csv_missing", "raise"} ->
               [status |-> "error", message |-> o.msg, image_path |-> None]
          [] o.kind = "no_data" ->
               [status |-> "no_data",
                message |-> "No numeric data found in structured CSVs to plot."]
          [] OTHER ->
               [status |-> "ok", metric |-> MetricLabel(query),
                image_path |-> Some(PLOT_OUTPUT_PATH),
                plot_latency_s |-> o.latency]]

---------------------------------------------------------------------------
(* controller.py: tool_executor_node *)

\* The empty Python string held by tool_outputs before any tool ran.
EmptyString == [text |-> ""]

\* {"id": c["id"], "score": c["score"], "text": c["text"], **c["metadata"]}
Flatten(c) ==
    LET base == [id |-> c.id, score |-> c.score, text |-> c.text] IN
    [k \in {"id", "score", "text"} \cup DOMAIN c.metadata |->
        IF k \in DOMAIN c.metadata THEN c.metadata[k] ELSE base[k]]

\* The engine tool_executor_node invokes for a plan; the else branch takes
\* every other plan to the retriever.
EngineFor(plan) == IF plan \in ToolNames THEN plan ELSE "retriever"

EngineOutcomes(engine) ==
    CASE engine = "retriever" -> RetrieverOutcomes
      [] engine = "financial" -> FinancialOutcomes
      [] OTHER -> PlotOutcomes

\* The tool body did not run.
NotRun == [kind |-> "not_run", msg |-> "", latency |-> 0]

\* The environment of one tool_executor_node call for a plan: either
\* tool.invoke raised before the tool's body ran (wrapper: the tool
\* framework's input validation or callbacks, outside the body's own try
\* block), or the body ran and the engine did `out`; and the elapsed time.
ToolEnvs(plan) ==
    [wrapper : {None}, out : EngineOutcomes(EngineFor(plan)), elapsed : Elapsed]
    \cup [wrapper : {Some(m) : m \in ExcMsgs}, out : {NotRun}, elapsed : Elapsed]

\* tool_executor_node(state) under environment e.
tool_executor_node(s, e) ==
    LET plan == s.plan
        query == s.query
        engine == EngineFor(plan)
        r == CASE engine = "retriever" -> retriever_tool(query, e.out)
               [] engine = "financial" -> financial_tool(query, e.out)
               [] OTHER -> plot_tool(query, e.out)
        failed == e.wrapper # None \/ r.raised
        msg == IF e.wrapper # None THEN e.wrapper[1] ELSE r.exc
        tool_output == IF failed THEN [status |-> "error", message |-> msg] ELSE r.json
        sources == IF ~failed /\ plan = "retriever" /\ r.json.status = "ok"
                   THEN [i \in 1..Len(r.json.chunks) |-> Flatten(r.json.chunks[i])]
                   ELSE <<>>
        image_path == IF ~failed /\ plan = "plot" /\ r.json.status = "ok"
                      THEN r.json.image_path
                      ELSE None
        error == IF failed THEN Some(msg) ELSE None
    IN [raised |-> FALSE,
        exc |-> "",
        out |-> [s EXCEPT !.tool_outputs = tool_output,
                          !.tools_used = <<plan>>,
                          !.sources = sources,
                          !.image_path = image_path,
                          !.error = error,
                          !.metrics = DictSet(s.metrics, "tool_latency_s", e.elapsed)],
        embed_calls |-> IF e.wrapper = None /\ engine = "retriever" THEN r.embed_calls ELSE 0,
        search_calls |-> IF e.wrapper = None /\ engine = "retriever" THEN r.search_calls ELSE 0,
        invoked |-> engine]

---------------------------------------------------------------------------
(* controller.py: synthesizer_node *)

\* What the synthesizer's LLM call can do:
\*   raise      converse raised
\*   malformed  the response lacks output/message/content[0]/text
\*   text       the response carries a completion, possibly the empty string
SynthReplies ==
    [kind : {"raise", "malformed"}, text : {<<>>}]
    \cup [kind : {"text"}, text : {<<"">>, <<"grounded answer">>}]

\* The environment of one synthesizer_node call: whether _get_bedrock()
\* raised, what converse answered, and the elapsed time.
SynthEnvs ==
    [client : {None} \cup {Some(m) : m \in ExcMsgs},
     reply : SynthReplies,
     elapsed : Elapsed]

\* The answer of the `if error:` branch.
ErrorAnswer(error) ==
    << "I encountered an error while processing your request: ",
       error,
       ". Please ensure the documents have been ingested and try again." >>

\* The answer of the `except Exception` branch: str(tool_outputs)[:500] follows
\* the fixed text.
LlmFailureAnswer ==
    << "I was unable to generate a response due to an LLM error. ",
       "Raw tool output: ",
       "<str(tool_outputs)[:500]>" >>

\* Mutant of synthesizer_node: the upstream error is not looked at.
SynthesizerIgnoresError(s, e) ==
    LET failed == e.client # None \/ e.reply.kind # "text" IN
    [raised |-> FALSE,
     exc |-> "",
     out |-> [s EXCEPT !.final_answer = IF failed THEN LlmFailureAnswer ELSE e.reply.text,
                       !.metrics = DictSet(s.metrics, "llm_latency_s", e.elapsed)],
     llm_calls |-> IF e.client = None THEN 1 ELSE 0]

\* Mutant of synthesizer_node: the error it has reported is cleared.
SynthesizerClearsError(s, e) ==
    LET failed == e.client # None \/ e.reply.kind # "text"
        final_answer == IF Truthy(s.error) THEN ErrorAnswer(s.error[1])
                        ELSE IF failed THEN LlmFailureAnswer
                        ELSE e.reply.text
    IN [raised |-> FALSE,
        exc |-> "",
        out |-> [s EXCEPT !.final_answer = final_answer,
                          !.error = None,
                          !.metrics = DictSet(s.metrics, "llm_latency_s", e.elapsed)],
        llm_calls |-> IF ~Truthy(s.error) /\ e.client = None THEN 1 ELSE 0]

\* synthesizer_node(state) under environment e.
synthesizer_node(s, e) ==
    LET error == s.error
        failed == e.client # None \/ e.reply.kind # "text"
        final_answer == IF Truthy(error) THEN ErrorAnswer(error[1])
                        ELSE IF failed THEN LlmFailureAnswer
                        ELSE e.reply.text
    IN [raised |-> FALSE,
        exc |-> "",
        out |-> [s EXCEPT !.final_answer = final_answer,
                          !.metrics = DictSet(s.metrics, "llm_latency_s", e.elapsed)],
        llm_calls |-> IF ~Truthy(error) /\ e.client = None THEN 1 ELSE 0]

---------------------------------------------------------------------------
(* The queries of the model *)

Vocabulary ==
    { <<"P","l","o","t">>,
      <<"c","h","a","r","t","s">>,
      <<"R","e","v","e","n","u","e">>,
      <<"t","r","e","n","d">>,
      <<"s","h","o","w">>,
      <<"r","i","s","k","s">> }

RECURSIVE JoinWords(_)
\* " ".join(ws)
JoinWords(ws) ==
    IF Len(ws) = 0 THEN <<>>
    ELSE IF Len(ws) = 1 THEN ws[1]
    ELSE ws[1] \o <<" ">> \o JoinWords(Tail(ws))

\* Both entry points (cli.py, app.py) refuse a blank query before calling run.
Queries ==
    { JoinWords(ws) : ws \in UNION { [1..n -> Vocabulary] : n \in 1..MaxWords } }

\* s[:n]
Prefix(s, n) == SubSeq(s, 1, IF Len(s) < n THEN Len(s) ELSE n)

---------------------------------------------------------------------------
(* controller.py: run_agent; agent_service.py: AgentService.run *)

NoState == [query |-> <<>>]

NoResponse == [none |-> TRUE]

NoEnv == [none |-> TRUE]

NoCalls == [router_llm |-> 0, embed |-> 0, search |-> 0, synth_llm |-> 0]

\* The collection before QdrantStore created it.
NoIndex == [exists |-> FALSE, points |-> <<>>]

NoCall == [op |-> "none"]

NoResult == [none |-> TRUE]

\* The threads of the process.
Threads == {1, 2}

\* No global holds a handle yet.
NoClients == [_bedrock_client |-> None, _embedder |-> None, _store |-> None]

NoCreated == [llm |-> 0, embedder |-> 0, store |-> 0]

\* No run() has returned yet.
NoReturn == [query |-> <<>>, image_path |-> None, chart |-> None]

NoRuns == [started |-> 0, completed |-> 0, unsaved |-> 0, returned |-> NoReturn]

\* A thread that serves no request.
IdleThread == [pc |-> "idle", query |-> <<>>, plan |-> "", image_path |-> None,
               error |-> None]

\* The process takes no part.
ProcIdle ==
    /\ clients = NoClients
    /\ created = NoCreated
    /\ plot_file = None
    /\ threads = [t \in Threads |-> IdleThread]
    /\ runs = NoRuns

\* initial_state of run_agent
InitialState(query, t_total) ==
    [query |-> query,
     plan |-> "",
     plan_reasoning |-> "",
     tool_outputs |-> EmptyString,
     final_answer |-> <<>>,
     tools_used |-> <<>>,
     sources |-> <<>>,
     image_path |-> None,
     error |-> None,
     metrics |-> [k \in {"request_start_ts"} |-> t_total]]

\* The response of AgentService.run when run_agent returned `s`.
ResponseOf(s, elapsed) ==
    [answer |-> s.final_answer,
     tools_used |-> s.tools_used,
     sources |-> s.sources,
     image_path |-> s.image_path,
     metrics |-> DictSet(s.metrics, "total_service_latency_s", elapsed),
     error |-> s.error]

\* Mutant of FatalResponse: only the answer, the error and the metrics.
FatalResponseBare(exc, elapsed) ==
    [answer |-> <<"Agent encountered an unrecoverable error: ", exc>>,
     metrics |-> [k \in {"total_service_latency_s"} |-> elapsed],
     error |-> Some(exc)]

\* The response of AgentService.run when run_agent raised an exception
\* whose str() is `exc`.
FatalResponse(exc, elapsed) ==
    [answer |-> <<"Agent encountered an unrecoverable error: ", exc>>,
     tools_used |-> <<>>,
     sources |-> <<>>,
     image_path |-> None,
     metrics |-> [k \in {"total_service_latency_s"} |-> elapsed],
     error |-> Some(exc)]

\* The record _save_metrics appends.
MetricsRecord(query, resp) ==
    LET head == [timestamp |-> "ts",
                 query |-> Prefix(query, 100),
                 tools |-> resp.tools_used,
                 image |-> resp.image_path # None,
                 error |-> resp.error # None]
    IN [k \in (DOMAIN head) \cup (DOMAIN resp.metrics) |->
           IF k \in DOMAIN resp.metrics THEN resp.metrics[k] ELSE head[k]]

\* Mutant of AppendLine: the file is opened with mode "w", which empties it.
WriteLine(file, record) == <<record>>

\* A file opened with mode "a" and written once: the operating system puts
\* the line after everything the file holds at the moment of the write.
AppendLine(file, record) == Append(file, record)

\* _save_metrics(query, response): the append may fail, which is logged only.
SaveMetrics(query, resp, write_ok) ==
    metrics_file' = IF write_ok
                    THEN AppendLine(metrics_file, MetricsRecord(query, resp))
                    ELSE metrics_file

Init ==
    /\ pc = "idle"
    /\ state = NoState
    /\ pre = NoState
    /\ last = "none"
    /\ env = NoEnv
    /\ escaped = None
    /\ calls = NoCalls
    /\ invoked = "none"
    /\ routed = None
    /\ response = NoResponse
    /\ stages = <<>>
    /\ metrics_file = <<>>
    /\ qdrant = NoIndex
    /\ call = NoCall
    /\ result = NoResult
    /\ ProcIdle

\* AgentService.run(query) up to graph.invoke(initial_state) in run_agent.
RunStart ==
    /\ pc = "idle"
    /\ \E q \in Queries : state' = InitialState(q, 0)
    /\ pc' = "planner"
    /\ UNCHANGED <<pre, last, env, escaped, calls, invoked, routed, response, metrics_file, stages, qdrant, call, result, procVars>>

\* The graph runs planner_node. An exception leaving the node leaves
\* graph.invoke and run_agent and reaches the except branch of AgentService.run.
PlannerStep ==
    /\ pc = "planner"
    /\ \E e \in PlannerEnvs :
         LET r == planner_node(state, e) IN
         /\ pre' = state
         /\ last' = "planner"
         /\ stages' = Append(stages, "planner")
         /\ escaped' = IF r.raised THEN Some(r.exc) ELSE None
         /\ state' = IF r.raised THEN state ELSE r.out
         /\ routed' = IF r.raised THEN None ELSE Some(r.out.plan)
         /\ calls' = [calls EXCEPT !.router_llm = @ + r.llm_calls]
         /\ env' = IF r.llm_calls = 0 THEN NoEnv ELSE [reply |-> e.reply]
         /\ pc' = IF r.raised THEN "fatal" ELSE "tool_executor"
    /\ UNCHANGED <<invoked, response, metrics_file, qdrant, call, result, procVars>>

\* The graph runs tool_executor_node.
ToolExecutorStep ==
    /\ pc = "tool_executor"
    /\ \E e \in ToolEnvs(state.plan) :
         LET r == tool_executor_node(state, e) IN
         /\ pre' = state
         /\ last' = "tool_executor"
         /\ stages' = Append(stages, "tool_executor")
         /\ env' = e
         /\ escaped' = IF r.raised THEN Some(r.exc) ELSE None
         /\ state' = IF r.raised THEN state ELSE r.out
         /\ invoked' = r.invoked
         /\ calls' = [calls EXCEPT !.embed = @ + r.embed_calls,
                                   !.search = @ + r.search_calls]
         /\ pc' = IF r.raised THEN "fatal" ELSE "synthesizer"
    /\ UNCHANGED <<routed, response, metrics_file, qdrant, call, result, procVars>>

\* The graph runs synthesizer_node and reaches END.
SynthesizerStep ==
    /\ pc = "synthesizer"
    /\ \E e \in SynthEnvs :
         LET r == synthesizer_node(state, e) IN
         /\ pre' = state
         /\ last' = "synthesizer"
         /\ stages' = Append(stages, "synthesizer")
         /\ escaped' = IF r.raised THEN Some(r.exc) ELSE None
         /\ state' = IF r.raised THEN state ELSE r.out
         /\ calls' = [calls EXCEPT !.synth_llm = @ + r.llm_calls]
         /\ pc' = IF r.raised THEN "fatal" ELSE "graph_end"
    /\ UNCHANGED <<env, invoked, routed, response, metrics_file, qdrant, call, result, procVars>>

\* run_agent after graph.invoke returned: total_latency_s is written into the
\* final state's metrics, and the state is returned.
RunAgentReturn ==
    /\ pc = "graph_end"
    /\ \E t \in Elapsed :
         state' = [state EXCEPT !.metrics = DictSet(@, "total_latency_s", t)]
    /\ pc' = "assemble"
    /\ UNCHANGED <<pre, last, env, escaped, calls, invoked, routed, response, metrics_file, stages, qdrant, call, result, procVars>>

\* AgentService.run, try branch: the response is assembled from the final
\* state, the metrics record is saved, the response is returned.
RunRespond ==
    /\ pc = "assemble"
    /\ \E t \in Elapsed, write_ok \in BOOLEAN :
         /\ response' = ResponseOf(state, t)
         /\ SaveMetrics(state.query, ResponseOf(state, t), write_ok)
    /\ pc' = "done"
    /\ UNCHANGED <<state, pre, last, env, escaped, calls, invoked, routed, stages, qdrant, call, result, procVars>>

\* AgentService.run, except branch: run_agent raised.
RunFatal ==
    /\ pc = "fatal"
    /\ \E t \in Elapsed, write_ok \in BOOLEAN :
         /\ response' = FatalResponse(escaped[1], t)
         /\ SaveMetrics(state.query, FatalResponse(escaped[1], t), write_ok)
    /\ pc' = "done"
    /\ UNCHANGED <<state, pre, last, env, escaped, calls, invoked, routed, stages, qdrant, call, result, procVars>>

Next ==
    \/ RunStart
    \/ PlannerStep
    \/ ToolExecutorStep
    \/ SynthesizerStep
    \/ RunAgentReturn
    \/ RunRespond
    \/ RunFatal

\* One request served by AgentService.run.
Spec == Init /\ [][Next]_vars

---------------------------------------------------------------------------
(* The nodes called on their own, on any AgentState *)

NodeQueries ==
    { JoinWords(<< <<"r","i","s","k","s">> >>),
      JoinWords(<< <<"P","l","o","t">>, <<"R","e","v","e","n","u","e">> >>) }

\* The AgentStates the nodes are called with.
NodeStates ==
    [query : NodeQueries,
     plan : {"", "retriever", "financial", "plot", "unknown"},
     plan_reasoning : {""},
     tool_outputs : {EmptyString, [status |-> "error", message |-> "DB unreachable"]},
     final_answer : {<<>>},
     tools_used : {<<>>},
     sources : {<<>>, <<Flatten(SearchResult(PointHit(1)))>>},
     image_path : {None},
     error : {None, Some(""), Some("DB unreachable")},
     metrics : {[k \in {"request_start_ts"} |-> 0],
                [k \in {"request_start_ts", "planner_latency_s", "tool_latency_s"} |-> 0]}]

NodeInit ==
    /\ pc = "node"
    /\ state \in NodeStates
    /\ pre = NoState
    /\ last = "none"
    /\ env = NoEnv
    /\ escaped = None
    /\ calls = NoCalls
    /\ invoked = "none"
    /\ routed = None
    /\ response = NoResponse
    /\ stages = <<>>
    /\ metrics_file = <<>>
    /\ qdrant = NoIndex
    /\ call = NoCall
    /\ result = NoResult
    /\ ProcIdle

\* planner_node(state)
NodePlanner ==
    /\ pc = "node"
    /\ \E e \in PlannerEnvs :
         LET r == planner_node(state, e) IN
         /\ pre' = state
         /\ last' = "planner"
         /\ stages' = Append(stages, "planner")
         /\ escaped' = IF r.raised THEN Some(r.exc) ELSE None
         /\ state' = IF r.raised THEN state ELSE r.out
         /\ calls' = [calls EXCEPT !.router_llm = @ + r.llm_calls]
         /\ env' = IF r.llm_calls = 0 THEN NoEnv ELSE [reply |-> e.reply]
    /\ pc' = "returned"
    /\ UNCHANGED <<invoked, routed, response, metrics_file, qdrant, call, result, procVars>>

\* tool_executor_node(state)
NodeToolExecutor ==
    /\ pc = "node"
    /\ \E e \in ToolEnvs(state.plan) :
         LET r == tool_executor_node(state, e) IN
         /\ pre' = state
         /\ last' = "tool_executor"
         /\ stages' = Append(stages, "tool_executor")
         /\ env' = e
         /\ escaped' = IF r.raised THEN Some(r.exc) ELSE None
         /\ state' = IF r.raised THEN state ELSE r.out
         /\ invoked' = r.invoked
         /\ calls' = [calls EXCEPT !.embed = @ + r.embed_calls,
                                   !.search = @ + r.search_calls]
    /\ pc' = "returned"
    /\ UNCHANGED <<routed, response, metrics_file, qdrant, call, result, procVars>>

\* synthesizer_node(state)
NodeSynthesizer ==
    /\ pc = "node"
    /\ \E e \in SynthEnvs :
         LET r == synthesizer_node(state, e) IN
         /\ pre' = state
         /\ last' = "synthesizer"
         /\ stages' = Append(stages, "synthesizer")
         /\ escaped' = IF r.raised THEN Some(r.exc) ELSE None
         /\ state' = IF r.raised THEN state ELSE r.out
         /\ calls' = [calls EXCEPT !.synth_llm = @ + r.llm_calls]
    /\ pc' = "returned"
    /\ UNCHANGED <<env, invoked, routed, response, metrics_file, qdrant, call, result, procVars>>

NodeNext ==
    \/ NodePlanner
    \/ NodeToolExecutor
    \/ NodeSynthesizer

\* One node called once on an AgentState of NodeStates.
NodeSpec == NodeInit /\ [][NodeNext]_vars

---------------------------------------------------------------------------
(* qdrant_store.py: a QdrantStore called on its own *)

\* The chunk lists and the vector lists an upsert is given.
Batches == UNION { [1..n -> Points] : n \in 0..MaxBatch }

\* The pipeline takes no part.
PipelineIdle ==
    /\ state = NoState
    /\ pre = NoState
    /\ last = "none"
    /\ env = NoEnv
    /\ escaped = None
    /\ calls = NoCalls
    /\ invoked = "none"
    /\ routed = None
    /\ response = NoResponse
    /\ stages = <<>>
    /\ metrics_file = <<>>

\* QdrantStore(path, collection): the collection is not created yet.
StoreInit ==
    /\ pc = "store"
    /\ PipelineIdle
    /\ qdrant = NoIndex
    /\ call = NoCall
    /\ result = NoResult
    /\ ProcIdle

\* store.create_collection(recreate)
StoreCreateCollection ==
    /\ pc = "store"
    /\ \E recreate \in BOOLEAN :
         /\ call' = [op |-> "create_collection", recreate |-> recreate]
         /\ qdrant' = create_collection(qdrant, recreate)
         /\ result' = [raised |-> FALSE, exc |-> "", value |-> 0]
    /\ UNCHANGED <<pipeVars, procVars>>

\* store.upsert(chunks, embeddings)
StoreUpsert ==
    /\ pc = "store"
    /\ \E chunks \in Batches, embeddings \in Batches, client_ok \in BOOLEAN :
         LET r == upsert(qdrant, chunks, embeddings, client_ok) IN
         /\ Len(qdrant.points) + Len(chunks) <= MaxPoints
         /\ call' = [op |-> "upsert", chunks |-> chunks, embeddings |-> embeddings]
         /\ qdrant' = r.qdrant
         /\ result' = [raised |-> r.raised, exc |-> r.exc, value |-> r.value]
    /\ UNCHANGED <<pipeVars, procVars>>

\* store.search(query_vector, top_k): the client raises when the collection
\* does not exist, and search lets that through.
StoreSearch ==
    /\ pc = "store"
    /\ \E k \in {1, QDRANT_TOP_K} :
         /\ call' = [op |-> "search", top_k |-> k]
         /\ IF ~qdrant.exists
            THEN result' = [raised |-> TRUE, exc |-> "Collection not found", value |-> <<>>]
            ELSE \E hits \in StoreQueryPoints(qdrant, k) :
                   result' = [raised |-> FALSE, exc |-> "", value |-> search(hits)]
    /\ UNCHANGED <<pipeVars, qdrant, procVars>>

StoreNext ==
    \/ StoreCreateCollection
    \/ StoreUpsert
    \/ StoreSearch

\* Any sequence of calls on one QdrantStore.
StoreSpec == StoreInit /\ [][StoreNext]_vars

---------------------------------------------------------------------------
(* financial_tool.py: the functions called on their own *)

\* Names of files in the CSV directory: MSFT_FY23Q4, fy2024, MSFT_FY241 (table 1
\* of FY24 without a separator), FY20221, and Microsoft_2023 (no FY).
Filenames ==
    { <<"M","S","F","T","_","F","Y","2","3","Q","4">>,
      <<"f","y","2","0","2","4">>,
      <<"M","S","F","T","_","F","Y","2","4","1">>,
      <<"F","Y","2","0","2","2","1">>,
      <<"M","i","c","r","o","s","o","f","t","_","2","0","2","3">> }

\* The sets of years the files of one CSV directory give.
YearSets ==
    { { _extract_year_from_filename(f)[1] :
          f \in { g \in files : _extract_year_from_filename(g) # None } } :
        files \in { fs \in SUBSET Filenames : Cardinality(fs) <= MaxFiles } }

\* The values a year may be given: missing, zero, 30, 100, 150, -50.
YearValues == {None, Some(0), Some(30), Some(100), Some(150), Some(0 - 50)}

FinInit ==
    /\ pc = "fin"
    /\ PipelineIdle
    /\ qdrant = NoIndex
    /\ call = NoCall
    /\ result = NoResult
    /\ ProcIdle

\* _extract_year_from_filename(filename)
FinExtractYear ==
    /\ pc = "fin"
    /\ \E f \in Filenames :
         /\ call' = [op |-> "_extract_year_from_filename", filename |-> f]
         /\ result' = [raised |-> FALSE, exc |-> "", value |-> _extract_year_from_filename(f)]
    /\ pc' = "returned"
    /\ UNCHANGED <<state, pre, last, env, escaped, calls, invoked, routed, response,
                   stages, metrics_file, qdrant, procVars>>

\* _compute_yoy(values_by_year)
FinComputeYoy ==
    /\ pc = "fin"
    /\ \E years \in YearSets :
         \E values_by_year \in [years -> YearValues] :
           /\ call' = [op |-> "_compute_yoy", values_by_year |-> values_by_year]
           /\ result' = [raised |-> FALSE, exc |-> "", value |-> _compute_yoy(values_by_year)]
    /\ pc' = "returned"
    /\ UNCHANGED <<state, pre, last, env, escaped, calls, invoked, routed, response,
                   stages, metrics_file, qdrant, procVars>>

\* The cells of the matching column: 150, $100, 1.5, 0, -5, n/a, 12-3.
Cells ==
    { <<"1","5","0">>,
      <<"$","1","0","0">>,
      <<"1",".","5">>,
      <<"0">>,
      <<"-","5">>,
      <<"n","/","a">>,
      <<"1","2","-","3">> }

\* The rows of the combined frame: the source file and the cell of the
\* matching column.
CsvRows == UNION { [1..n -> [file : Filenames, cell : Cells]] : n \in 0..MaxRows }

\* The CSV data a call may find.
CsvData ==
    [kind : {"missing"}, matching : {FALSE}, rows : {<<>>}]
    \cup [kind : {"loaded"}, matching : {FALSE}, rows : {<<>>}]
    \cup [kind : {"loaded"}, matching : {TRUE}, rows : CsvRows]

\* _run_financial_analysis(query)
FinRunAnalysis ==
    /\ pc = "fin"
    /\ \E query \in NodeQueries, csv \in CsvData :
         /\ call' = [op |-> "_run_financial_analysis", query |-> query, csv |-> csv]
         /\ result' = _run_financial_analysis(query, csv)
    /\ pc' = "returned"
    /\ UNCHANGED <<state, pre, last, env, escaped, calls, invoked, routed, response,
                   stages, metrics_file, qdrant, procVars>>

FinNext ==
    \/ FinExtractYear
    \/ FinComputeYoy
    \/ FinRunAnalysis

\* One call of one function of financial_tool.py.
FinSpec == FinInit /\ [][FinNext]_vars

---------------------------------------------------------------------------
(* ragas_eval.py: the evaluation harness. Scores are in units of 10^-5. *)

\* CONTEXT_RECALL_THRESHOLD, 0.70
CONTEXT_RECALL_THRESHOLD == 70000

\* The chunk dicts handed to the harness: with a score, or without the key.
EvalChunks ==
    [score : {90000, 75000, 70000, 50000}] \cup {[text |-> "chunk text"]}

\* The chunk lists of a sample.
ChunkLists == UNION { [1..n -> EvalChunks] : n \in 0..MaxChunks }

\* c.get("score", 0.0)
ChunkScore(c) == IF "score" \in DOMAIN c THEN c.score ELSE 0

\* Mutant of score_context_recall: a score equal to the threshold does not count.
ScoreContextRecallStrict(chunks, threshold) ==
    IF chunks = <<>>
    THEN 0
    ELSE LET recalled == Cardinality({i \in 1..Len(chunks) : ChunkScore(chunks[i]) > threshold})
         IN RoundDiv(recalled * 1000, Len(chunks)) * 100

\* score_context_recall(chunks, threshold): round(recalled / len(chunks), 3).
score_context_recall(chunks, threshold) ==
    IF chunks = <<>>
    THEN 0
    ELSE LET recalled == Cardinality({i \in 1..Len(chunks) : ChunkScore(chunks[i]) >= threshold})
         IN RoundDiv(recalled * 1000, Len(chunks)) * 100

\* A token of a text: a word, or a number written int.frac (frac in 10^-5).
Word == [word |-> TRUE, int |-> 0, frac |-> 0]

Num(int, frac) == [word |-> FALSE, int |-> int, frac |-> frac]

\* The score field of a JSON object: absent, a number, a string that float()
\* accepts, another string, or null.
ScoreFields ==
    [type : {"absent", "str", "null"}, val : {0}]
    \cup [type : {"number"}, val : {85000, 150000, 0 - 20000}]
    \cup [type : {"numstr"}, val : {90000}]

\* What one converse call of the judge can give:
\*   raise   the call raised, or the response lacks the text
\*   object  the text is a JSON object
\*   scalar  the text is JSON but no object (a number, a list)
\*   text    the text is no JSON
\* tokens are the words and numbers of the text, which the regex fallback
\* searches.
JudgeReplies ==
    [kind : {"raise", "scalar"}, score : {[type |-> "absent", val |-> 0]}, tokens : {<<>>}]
    \cup [kind : {"object"}, score : ScoreFields, tokens : {<<Word>>}]
    \cup [kind : {"text"}, score : {[type |-> "absent", val |-> 0]},
          tokens : { <<Word>>,
                     <<Word, Num(0, 80000)>>,
                     <<Word, Num(1, 50000)>>,
                     <<Num(8, 0), Word, Num(10, 0)>> }]

\* BedrockJudge._call: the raw text; a failed call gives '{"score": 0.0}'.
JudgeCall(reply) ==
    IF reply.kind = "raise"
    THEN [kind |-> "object", score |-> [type |-> "number", val |-> 0], tokens |-> <<>>]
    ELSE reply

\* \b([01](?:\.\d+)?)\b matches the token.
ScoreToken(t) == ~t.word /\ t.int \in {0, 1}

\* The regex fallback of _parse_score: the first matching number, else 0.0.
RegexScore(tokens) ==
    IF \E i \in 1..Len(tokens) : ScoreToken(tokens[i])
    THEN LET i == CHOOSE k \in 1..Len(tokens) :
                      ScoreToken(tokens[k]) /\ \A j \in 1..(k - 1) : ~ScoreToken(tokens[j])
         IN tokens[i].int * 100000 + tokens[i].frac
    ELSE 0

\* BedrockJudge._parse_score(raw): float(data.get("score", 0.0)) for JSON;
\* JSONDecodeError and ValueError lead to the regex fallback, any other
\* exception leaves the method.
_parse_score(raw) ==
    CASE raw.kind = "scalar" ->
           [raised |-> TRUE, exc |-> "AttributeError", value |-> 0]
      [] raw.kind = "object" /\ raw.score.type = "null" ->
           [raised |-> TRUE, exc |-> "TypeError", value |-> 0]
      [] raw.kind = "object" /\ raw.score.type = "absent" ->
           [raised |-> FALSE, exc |-> "", value |-> 0]
      [] raw.kind = "object" /\ raw.score.type \in {"number", "numstr"} ->
           [raised |-> FALSE, exc |-> "", value |-> raw.score.val]
      [] OTHER ->
           [raised |-> FALSE, exc |-> "", value |-> RegexScore(raw.tokens)]

\* Mutant of evaluate_sample: an exception resets the metrics computed so far.
EvaluateSampleResets(contexts, chunks, reply1, reply2) ==
    LET f == _parse_score(JudgeCall(reply1))
        a == _parse_score(JudgeCall(reply2))
        failed == f.raised \/ a.raised
    IN [faithfulness |-> IF failed THEN 0 ELSE f.value,
        answer_relevancy |-> IF failed THEN 0 ELSE a.value,
        context_recall |-> IF failed
                           THEN 0
                           ELSE score_context_recall(IF chunks = None THEN <<>> ELSE chunks[1],
                                                     CONTEXT_RECALL_THRESHOLD),
        num_chunks |-> Len(contexts),
        error |-> IF f.raised THEN Some(f.exc)
                  ELSE IF a.raised THEN Some(a.exc)
                  ELSE None]

\* RAGASEvaluator.evaluate_sample(query, answer, contexts, chunks) when the
\* judge's two calls give reply1 and reply2; chunks may be None.
evaluate_sample(contexts, chunks, reply1, reply2) ==
    LET f == _parse_score(JudgeCall(reply1))
        a == _parse_score(JudgeCall(reply2))
    IN [faithfulness |-> IF f.raised THEN 0 ELSE f.value,
        answer_relevancy |-> IF f.raised \/ a.raised THEN 0 ELSE a.value,
        context_recall |-> IF f.raised \/ a.raised
                           THEN 0
                           ELSE score_context_recall(IF chunks = None THEN <<>> ELSE chunks[1],
                                                     CONTEXT_RECALL_THRESHOLD),
        num_chunks |-> Len(contexts),
        error |-> IF f.raised THEN Some(f.exc)
                  ELSE IF a.raised THEN Some(a.exc)
                  ELSE None]

EvalInit ==
    /\ pc = "eval"
    /\ PipelineIdle
    /\ qdrant = NoIndex
    /\ call = NoCall
    /\ result = NoResult
    /\ ProcIdle

\* score_context_recall(chunks) and score_context_recall(chunks, threshold)
EvalScoreContextRecall ==
    /\ pc = "eval"
    /\ \E chunks \in ChunkLists, threshold \in {CONTEXT_RECALL_THRESHOLD, 90000} :
         /\ call' = [op |-> "score_context_recall", chunks |-> chunks, threshold |-> threshold]
         /\ result' = [raised |-> FALSE, exc |-> "",
                       value |-> score_context_recall(chunks, threshold)]
    /\ pc' = "returned"
    /\ UNCHANGED <<state, pre, last, env, escaped, calls, invoked, routed, response,
                   stages, metrics_file, qdrant, procVars>>

\* judge.score_faithfulness(...) and judge.score_answer_relevancy(...): the
\* raw text of _call goes through _parse_score.
EvalScoreMetric ==
    /\ pc = "eval"
    /\ \E metric \in {"score_faithfulness", "score_answer_relevancy"}, reply \in JudgeReplies :
         /\ call' = [op |-> metric, reply |-> reply]
         /\ result' = _parse_score(JudgeCall(reply))
    /\ pc' = "returned"
    /\ UNCHANGED <<state, pre, last, env, escaped, calls, invoked, routed, response,
                   stages, metrics_file, qdrant, procVars>>

\* evaluator.evaluate_sample(query, answer, contexts, chunks); the contexts
\* are the texts of the chunks.
EvalEvaluateSample ==
    /\ pc = "eval"
    /\ \E chunks \in ChunkLists, given \in BOOLEAN, reply1 \in JudgeReplies, reply2 \in JudgeReplies :
         LET arg == IF given THEN Some(chunks) ELSE None IN
         /\ call' = [op |-> "evaluate_sample", chunks |-> arg, contexts |-> Len(chunks),
                     replies |-> <<reply1, reply2>>]
         /\ result' = [raised |-> FALSE, exc |-> "",
                       value |-> evaluate_sample(chunks, arg, reply1, reply2)]
    /\ pc' = "returned"
    /\ UNCHANGED <<state, pre, last, env, escaped, calls, invoked, routed, response,
                   stages, metrics_file, qdrant, procVars>>

EvalNext ==
    \/ EvalScoreContextRecall
    \/ EvalScoreMetric
    \/ EvalEvaluateSample

\* One call of one function of the evaluation harness.
EvalSpec == EvalInit /\ [][EvalNext]_vars

---------------------------------------------------------------------------
(* One process serving requests on several threads: the module globals of   *)
(* controller.py and retriever_tool.py, the chart file and the metrics log  *)
(* are shared; every call of run() has its own AgentState.                  *)

\* The number of calls of run() the process serves.
MaxRequests == 2

\* The queries of the requests: "risks" matches no keyword, so that the LLM
\* chooses its tool, and its metric is Revenue; "plot income" is routed to
\* the plot tool by keyword and its metric is Operating Income.
ProcQueries ==
    { <<"r","i","s","k","s">>,
      <<"p","l","o","t"," ","i","n","c","o","m","e">> }

\* What the caller of thread th has when run() returns: the query it sent,
\* the image path of the response and the chart found at that path.
Returned(th) ==
    [query |-> th.query, image_path |-> th.image_path, chart |-> plot_file]

\* The variables the process model leaves alone.
procFrame == <<pc, state, pre, last, env, escaped, calls, invoked, routed, response,
               stages, qdrant, call, result>>

\* threads with the fields of thread t set as in `upd`.
SetThread(t, upd) ==
    [threads EXCEPT ![t] = [f \in DOMAIN @ |-> IF f \in DOMAIN upd THEN upd[f] ELSE @[f]]]

\* The response run() returns for the request of thread th.
ProcResponse(th) ==
    [answer |-> <<>>,
     tools_used |-> IF th.plan = "" THEN <<>> ELSE <<th.plan>>,
     sources |-> <<>>,
     image_path |-> th.image_path,
     metrics |-> <<>>,
     error |-> th.error]

ProcInit ==
    /\ pc = "proc"
    /\ PipelineIdle
    /\ qdrant = NoIndex
    /\ call = NoCall
    /\ result = NoResult
    /\ ProcIdle

\* A thread enters AgentService.run(query).
ProcRunStart(t) ==
    /\ threads[t].pc = "idle"
    /\ runs.started < MaxRequests
    /\ \E query \in ProcQueries :
         threads' = [threads EXCEPT ![t] = [IdleThread EXCEPT !.pc = "planner",
                                                              !.query = query]]
    /\ runs' = [runs EXCEPT !.started = @ + 1]
    /\ UNCHANGED <<procFrame, metrics_file, clients, created, plot_file>>

\* planner_node: without a keyword match it builds a Bedrock client of its
\* own with boto3.client(...) and hands it to _llm_route; an exception of
\* boto3.client leaves the graph and run() answers with its except branch.
ProcPlanner(t) ==
    /\ threads[t].pc = "planner"
    /\ \E e \in PlannerEnvs :
         LET r == planner_node(InitialState(threads[t].query, 0), e) IN
         /\ threads' = IF r.raised
                       THEN SetThread(t, [pc |-> "open_metrics", error |-> Some(r.exc)])
                       ELSE SetThread(t, [pc |-> "tool", plan |-> r.out.plan])
         /\ created' = [created EXCEPT !.llm = @ + r.llm_calls]
    /\ UNCHANGED <<procFrame, metrics_file, clients, plot_file, runs>>

\* tool_executor_node: tool.invoke raised before the tool's body ran.
ProcToolFails(t) ==
    /\ threads[t].pc = "tool"
    /\ \E m \in ExcMsgs :
         threads' = SetThread(t, [pc |-> "synthesizer", error |-> Some(m)])
    /\ UNCHANGED <<procFrame, metrics_file, clients, created, plot_file, runs>>

\* _get_embedder(): the test `_embedder is None`.
ProcGetEmbedder(t) ==
    /\ threads[t].pc = "tool"
    /\ EngineFor(threads[t].plan) = "retriever"
    /\ threads' = SetThread(t, [pc |-> IF clients._embedder = None
                                        THEN "new_embedder" ELSE "get_store"])
    /\ UNCHANGED <<procFrame, metrics_file, clients, created, plot_file, runs>>

\* _get_embedder(): `_embedder = TitanEmbedder()`; when the constructor
\* raises, retriever_tool catches it and returns its error JSON.
ProcNewEmbedder(t) ==
    /\ threads[t].pc = "new_embedder"
    /\ \E ok \in BOOLEAN :
         IF ok
         THEN /\ created' = [created EXCEPT !.embedder = @ + 1]
              /\ clients' = [clients EXCEPT !._embedder = Some(created.embedder + 1)]
              /\ threads' = SetThread(t, [pc |-> "get_store"])
         ELSE /\ threads' = SetThread(t, [pc |-> "synthesizer"])
              /\ UNCHANGED <<created, clients>>
    /\ UNCHANGED <<procFrame, metrics_file, plot_file, runs>>

\* _get_store(): the test `_store is None`; with a store in hand the tool
\* embeds the query, searches, and returns.
ProcGetStore(t) ==
    /\ threads[t].pc = "get_store"
    /\ threads' = SetThread(t, [pc |-> IF clients._store = None
                                        THEN "new_store" ELSE "synthesizer"])
    /\ UNCHANGED <<procFrame, metrics_file, clients, created, plot_file, runs>>

\* _get_store(): `_store = QdrantStore()`, then the rest of the tool.
ProcNewStore(t) ==
    /\ threads[t].pc = "new_store"
    /\ \E ok \in BOOLEAN :
         IF ok
         THEN /\ created' = [created EXCEPT !.store = @ + 1]
              /\ clients' = [clients EXCEPT !._store = Some(created.store + 1)]
         ELSE UNCHANGED <<created, clients>>
    /\ threads' = SetThread(t, [pc |-> "synthesizer"])
    /\ UNCHANGED <<procFrame, metrics_file, plot_file, runs>>

\* financial_tool: it shares nothing with other requests.
ProcFinancial(t) ==
    /\ threads[t].pc = "tool"
    /\ EngineFor(threads[t].plan) = "financial"
    /\ threads' = SetThread(t, [pc |-> "synthesizer"])
    /\ UNCHANGED <<procFrame, metrics_file, clients, created, plot_file, runs>>

\* plot_tool: _generate_chart saves the chart of the query's metric at
\* PLOT_OUTPUT_PATH and the executor copies the path into the state.
ProcPlot(t) ==
    /\ threads[t].pc = "tool"
    /\ EngineFor(threads[t].plan) = "plot"
    /\ \E o \in PlotOutcomes :
         LET json == plot_tool(threads[t].query, o).json IN
         IF json.status = "ok"
         THEN /\ plot_file' = Some(json.metric)
              /\ threads' = SetThread(t, [pc |-> "synthesizer",
                                          image_path |-> json.image_path])
         ELSE /\ threads' = SetThread(t, [pc |-> "synthesizer"])
              /\ UNCHANGED plot_file
    /\ UNCHANGED <<procFrame, metrics_file, clients, created, runs>>

\* synthesizer_node: with an error it makes no LLM call; otherwise
\* _get_bedrock() tests `_bedrock_client is None`.
ProcGetBedrock(t) ==
    /\ threads[t].pc = "synthesizer"
    /\ threads' = SetThread(t, [pc |-> IF ~Truthy(threads[t].error)
                                           /\ clients._bedrock_client = None
                                        THEN "new_bedrock" ELSE "open_metrics"])
    /\ UNCHANGED <<procFrame, metrics_file, clients, created, plot_file, runs>>

\* _get_bedrock(): `_bedrock_client = boto3.client(...)`, then converse; the
\* synthesizer catches whatever either raises.
ProcNewBedrock(t) ==
    /\ threads[t].pc = "new_bedrock"
    /\ \E ok \in BOOLEAN :
         IF ok
         THEN /\ created' = [created EXCEPT !.llm = @ + 1]
              /\ clients' = [clients EXCEPT !._bedrock_client = Some(created.llm + 1)]
         ELSE UNCHANGED <<created, clients>>
    /\ threads' = SetThread(t, [pc |-> "open_metrics"])
    /\ UNCHANGED <<procFrame, metrics_file, plot_file, runs>>

\* _save_metrics: open(METRICS_FILE, "a"). When it raises, the warning is
\* logged and run() returns its response without a metrics record.
ProcOpenMetrics(t) ==
    /\ threads[t].pc = "open_metrics"
    /\ \E ok \in BOOLEAN :
         IF ok
         THEN /\ threads' = SetThread(t, [pc |-> "write_metrics"])
              /\ UNCHANGED runs
         ELSE /\ threads' = [threads EXCEPT ![t] = IdleThread]
              /\ runs' = [runs EXCEPT !.completed = @ + 1, !.unsaved = @ + 1,
                                      !.returned = Returned(threads[t])]
    /\ UNCHANGED <<procFrame, metrics_file, clients, created, plot_file>>

\* _save_metrics: the record is written and the file closed, unless that
\* raises, which is logged only; run() returns its response, and the caller
\* finds at image_path the chart stored there.
ProcWriteMetrics(t) ==
    /\ threads[t].pc = "write_metrics"
    /\ \E ok \in BOOLEAN :
         IF ok
         THEN /\ metrics_file' = AppendLine(metrics_file,
                                    MetricsRecord(threads[t].query, ProcResponse(threads[t])))
              /\ runs' = [runs EXCEPT !.completed = @ + 1,
                                      !.returned = Returned(threads[t])]
         ELSE /\ UNCHANGED metrics_file
              /\ runs' = [runs EXCEPT !.completed = @ + 1, !.unsaved = @ + 1,
                                      !.returned = Returned(threads[t])]
    /\ threads' = [threads EXCEPT ![t] = IdleThread]
    /\ UNCHANGED <<procFrame, clients, created, plot_file>>

ProcNext ==
    \E t \in Threads :
        \/ ProcRunStart(t)
        \/ ProcPlanner(t)
        \/ ProcToolFails(t)
        \/ ProcGetEmbedder(t)
        \/ ProcNewEmbedder(t)
        \/ ProcGetStore(t)
        \/ ProcNewStore(t)
        \/ ProcFinancial(t)
        \/ ProcPlot(t)
        \/ ProcGetBedrock(t)
        \/ ProcNewBedrock(t)
        \/ ProcOpenMetrics(t)
        \/ ProcWriteMetrics(t)

\* Requests served by one process, their steps interleaved in any order.
ProcSpec == ProcInit /\ [][ProcNext]_vars

---------------------------------------------------------------------------
(* Properties *)

\* The engine behind the invoked tool raised: the embedding call, the vector
\* search, the CSV loading or the chart rendering.
EngineFailed(e) == e.out.kind \in {"embed_raise", "search_raise", "csv_missing", "raise"}

\* The text `t` contains the string `x` as one of its segments.
TextContains(t, x) == \E i \in 1..Len(t) : t[i] = x

\* C1: whenever the engine invoked by the tool executor fails, the state the
\* tool executor returns has a tool output of status "error" with a message,
\* and a non-empty error, so that the synthesizer takes its error path.
C1_EngineFailureSetsError ==
    (pc = "synthesizer" /\ last = "tool_executor" /\ EngineFailed(env)) =>
        /\ state.tool_outputs.status = "error"
        /\ "message" \in DOMAIN state.tool_outputs
        /\ Truthy(state.error)

\* C2: whenever the synthesizer is called on a state whose error is
\* non-empty, it makes no LLM call and its answer contains the error text.
C2_ErrorPathSkipsLlm ==
    (pc = "returned" /\ last = "synthesizer" /\ Truthy(pre.error)) =>
        /\ calls.synth_llm = 0
        /\ TextContains(state.final_answer, pre.error[1])

C2_Witness ==
    /\ pc = "returned"
    /\ last = "synthesizer"
    /\ pre.error = Some("DB unreachable")
    /\ state.final_answer = ErrorAnswer("DB unreachable")
    /\ calls.synth_llm = 0

\* C3: whatever the stages met, the response of run() has an answer field
\* holding a non-empty string.
C3_AnswerNeverEmpty ==
    pc = "done" =>
        /\ "answer" \in DOMAIN response
        /\ ~IsEmptyText(response.answer)

\* C4: the tool executor and the synthesizer, called on a state whose error
\* is non-empty, return a state with that same error.
C4_ErrorNeverCleared ==
    (pc = "returned" /\ last \in {"tool_executor", "synthesizer"} /\ Truthy(pre.error)) =>
        state.error = pre.error

\* C5: no node lets an exception escape to its caller.
C5_NoExceptionEscapes == escaped = None

\* The lower-cased query contains a visualization keyword and a financial one.
BothKeywordKinds(query) ==
    /\ AnyKeywordIn(Lower(query), _PLOT_KEYWORDS)
    /\ AnyKeywordIn(Lower(query), _FINANCIAL_KEYWORDS)

\* C6: a query whose lower-cased text contains a visualization keyword and a
\* financial keyword is routed to plot, and the LLM classifier is not called.
C6_VisualizationPriority ==
    (routed # None /\ BothKeywordKinds(state.query)) =>
        /\ routed = Some("plot")
        /\ state.plan = "plot"
        /\ calls.router_llm = 0

C6_Witness ==
    /\ pc = "tool_executor"
    /\ state.query = JoinWords(<< <<"R","e","v","e","n","u","e">>, <<"c","h","a","r","t","s">> >>)
    /\ state.plan = "plot"
    /\ calls.router_llm = 0

\* The router's LLM call was made and answered `env.reply`.
LlmRouted == pc = "tool_executor" /\ last = "planner" /\ "reply" \in DOMAIN env

\* The reply is a JSON object with a tool field.
ParseableWithTool(reply) == reply.kind = "object" /\ reply.tool.present

\* The tool field holds something other than one of the three tool names.
NamesToolOutside(reply) ==
    /\ ParseableWithTool(reply)
    /\ (~reply.tool.isstr \/ reply.tool.val \notin ToolNames)

\* The tool field holds something whose lower-cased value is none of the
\* three tool names.
NamesToolOutsideLowered(reply) ==
    /\ ParseableWithTool(reply)
    /\ (~reply.tool.isstr \/ LowerStr(reply.tool.val) \notin ToolNames)

\* C7 as stated: when no keyword matches and the classifier's reply is not a
\* parseable JSON object with a tool field, or names a tool outside
\* {retriever, financial, plot}, the router returns retriever.
C7_Original ==
    (LlmRouted /\ (~ParseableWithTool(env.reply) \/ NamesToolOutside(env.reply))) =>
        state.plan = "retriever"

\* C7, amended: when no keyword matches and the classifier's reply is not a
\* parseable JSON object with a tool field, or its tool field, lower-cased,
\* is outside {retriever, financial, plot}, the router returns retriever.
C7_FallbackToRetriever ==
    (LlmRouted /\ (~ParseableWithTool(env.reply) \/ NamesToolOutsideLowered(env.reply))) =>
        state.plan = "retriever"

C7_Witness ==
    /\ LlmRouted
    /\ env.reply.kind = "object"
    /\ env.reply.tool = [present |-> TRUE, isstr |-> TRUE, val |-> "chart"]
    /\ state.plan = "retriever"

\* C8: once the planner has returned, the plan is one of the enum values and
\* stays the value the planner gave it through the tool executor, the
\* synthesizer and the return of run_agent.
C8_IntentFixedAfterRouter ==
    routed # None =>
        /\ state.plan \in IntentEnum
        /\ state.plan = routed[1]

C8_Witness ==
    /\ pc = "done"
    /\ calls.router_llm = 1
    /\ routed = Some("financial")
    /\ state.plan = "financial"
    /\ state.tools_used = <<"financial">>
    /\ ~IsEmptyText(state.final_answer)

\* The state carries degraded = true.
Degraded(s) == "degraded" \in DOMAIN s /\ s.degraded = TRUE

\* The tool output carries the note about the redirection.
HasNote(o) == "phase2_note" \in DOMAIN o

\* C9: when the plan is financial or plot, capabilities the module declares
\* disabled, the tool executor invokes the retriever instead, flags the state
\* degraded and appends a note to the tool output.
C9_DisabledIntentRedirected ==
    (pc = "synthesizer" /\ last = "tool_executor" /\ pre.plan \in {"financial", "plot"}) =>
        /\ invoked = "retriever"
        /\ Degraded(state)
        /\ HasNote(state.tool_outputs)

\* C10: for a plan outside {retriever, financial, plot} the tool executor
\* invokes the retriever and returns the tool output and the evidence it
\* returns for the plan retriever on the same query and the same engine outcome.
C10_UnknownIntentSameAsRetriever ==
    (pc = "returned" /\ last = "tool_executor" /\ pre.plan \notin ToolNames) =>
        LET ref == tool_executor_node([pre EXCEPT !.plan = "retriever"], env).out IN
        /\ invoked = "retriever"
        /\ state.tool_outputs = ref.tool_outputs
        /\ state.sources = ref.sources

\* The graph of build_graph: planner, tool_executor, synthesizer, END.
StageOrder == <<"planner", "tool_executor", "synthesizer">>

\* C11: the nodes entered so far are always an initial part of planner,
\* tool_executor, synthesizer, each entered once; and when run() has returned,
\* all three have run, the synthesizer last, and the answer returned is the
\* one the synthesizer set.
C11_StagesOnceInOrder ==
    /\ \E n \in 0..3 : stages = SubSeq(StageOrder, 1, n)
    /\ pc = "done" =>
          /\ stages = StageOrder
          /\ last = "synthesizer"
          /\ response.answer = state.final_answer

\* The number of nodes that have returned a state so far.
StagesReturned == Len(stages) - (IF escaped # None THEN 1 ELSE 0)

\* Every entry of the metrics m is an entry of the metrics n.
MetricsKept(m, n) == \A k \in DOMAIN m : k \in DOMAIN n /\ n[k] = m[k]

\* C12: once a node has returned, every step of the run that produces a new
\* state keeps every metrics entry of the state before it, and the response
\* of run() holds every metrics entry of the final state.
C12_MetricsAppendOnly ==
    [][ (StagesReturned >= 1 /\ "metrics" \in DOMAIN state) =>
          /\ MetricsKept(state.metrics, state'.metrics)
          /\ (pc' = "done" => MetricsKept(state.metrics, response'.metrics)) ]_vars

C12_Witness ==
    /\ pc = "done"
    /\ stages = StageOrder
    /\ response.metrics =
         [k \in {"request_start_ts", "planner_latency_s", "tool_latency_s",
                 "llm_latency_s", "total_latency_s", "total_service_latency_s"} |->
            IF k = "request_start_ts" THEN 0 ELSE 1]

\* The six fields of the record run() returns.
ResponseFields == {"answer", "tools_used", "sources", "image_path", "metrics", "error"}

\* C13: an exception that left the graph is taken by the except branch of
\* run(), never further; and the record run() returns has the six fields
\* answer, tools_used, sources, image_path, metrics and error, whether the
\* graph returned or raised.
C13_RunReturnsSixFields ==
    /\ escaped # None => pc \in {"fatal", "done"}
    /\ pc = "done" =>
          /\ DOMAIN response = ResponseFields
          /\ escaped # None => response.error = escaped

C13_Witness ==
    /\ pc = "done"
    /\ escaped = Some("DB unreachable")
    /\ DOMAIN response = ResponseFields
    /\ response.error = Some("DB unreachable")
    /\ response.tools_used = <<>>

\* C14: an upsert given chunk and vector lists of different lengths raises a
\* ValueError and leaves the collection as it was: not created, no point added.
C14_UpsertMismatchNoWrite ==
    [][ (call'.op = "upsert" /\ Len(call'.chunks) # Len(call'.embeddings)) =>
          /\ result'.raised
          /\ result'.exc = "ValueError"
          /\ qdrant' = qdrant ]_vars

C14_Witness ==
    /\ call.op = "upsert"
    /\ Len(call.chunks) = 2
    /\ Len(call.embeddings) = 1
    /\ result.raised
    /\ result.exc = "ValueError"
    /\ qdrant = NoIndex

\* C15: the scores of the list search returns never increase from one entry
\* to the next, rounded as they are.
C15_SearchDescending ==
    (call.op = "search" /\ ~result.raised) =>
        \A i \in 1..(Len(result.value) - 1) :
            result.value[i].score >= result.value[i + 1].score

C15_Witness ==
    /\ call.op = "search"
    /\ ~result.raised
    /\ Len(result.value) = 2
    /\ result.value[1].score = 91240
    /\ result.value[2].score = 70000

\* The embedding model answered the retriever's query with a vector whose
\* length is not the dimensionality of the index.
DimMismatch(e) ==
    /\ e.wrapper = None
    /\ e.out.kind # "embed_raise"
    /\ e.out.dim # EMBEDDING_DIMENSION

\* C16: when the vector embedded for the query has another length than the
\* index dimensionality, the error leaves the tool executor as an exception;
\* it is not turned into a tool output of status "error" for that query.
C16_DimMismatchFatal ==
    (pc = "synthesizer" /\ last = "tool_executor" /\ invoked = "retriever" /\ DimMismatch(env)) =>
        /\ escaped # None
        /\ state.tool_outputs.status # "error"

\* The number a string of at most four digits denotes.
YearNum(y) ==
    LET n == Len(y)
        Pow10(k) == CASE k = 0 -> 1 [] k = 1 -> 10 [] k = 2 -> 100 [] OTHER -> 1000
    IN IF n = 0 THEN 0
       ELSE IF n = 1 THEN DigitOrd(y[1])
       ELSE IF n = 2 THEN DigitOrd(y[1]) * 10 + DigitOrd(y[2])
       ELSE IF n = 3 THEN DigitOrd(y[1]) * 100 + DigitOrd(y[2]) * 10 + DigitOrd(y[3])
       ELSE DigitOrd(y[1]) * Pow10(3) + DigitOrd(y[2]) * 100 + DigitOrd(y[3]) * 10 + DigitOrd(y[4])

\* C17: for every values-by-year mapping whose years come from filenames,
\* the order in which _compute_yoy takes the years is ascending by fiscal
\* year, and the growth of the earliest fiscal year is null.
C17_EarliestYearNull ==
    (call.op = "_compute_yoy" /\ DOMAIN call.values_by_year # {}) =>
        LET years == Sorted(DOMAIN call.values_by_year) IN
        /\ \A i \in 1..(Len(years) - 1) : YearNum(years[i]) < YearNum(years[i + 1])
        /\ \A y \in DOMAIN call.values_by_year :
             (\A z \in DOMAIN call.values_by_year : YearNum(y) <= YearNum(z)) =>
                 result.value[y] = None

\* curr comes right after prev in the sorted years of m.
Consecutive(m, prev, curr) ==
    \E i \in 1..(Cardinality(DOMAIN m) - 1) :
        Sorted(DOMAIN m)[i] = prev /\ Sorted(DOMAIN m)[i + 1] = curr

\* C18: for every two consecutive years prev, curr of a values-by-year
\* mapping, the growth of curr is exactly (curr_val - prev_val) / abs(prev_val)
\* * 100 when prev_val is present and not zero, and null when prev_val is zero
\* or missing. Growth is in hundredths of a percent.
C18_YoyFormula ==
    call.op = "_compute_yoy" =>
        LET m == call.values_by_year IN
        \A prev, curr \in DOMAIN m :
            (Consecutive(m, prev, curr) /\ m[curr] # None) =>
                IF TruthyNum(m[prev])
                THEN /\ result.value[curr] # None
                     /\ result.value[curr][1] * Abs(m[prev][1]) = (m[curr][1] - m[prev][1]) * 10000
                ELSE result.value[curr] = None

\* The number of chunks of the list whose score is at least the threshold.
Recalled(chunks, threshold) ==
    Cardinality({i \in 1..Len(chunks) :
                   "score" \in DOMAIN chunks[i] /\ chunks[i].score >= threshold})

\* C19: score_context_recall never fails; for the empty list it returns 0.0;
\* otherwise it returns a number of three decimals that differs from the
\* fraction of chunks with a score at or above the threshold by at most half
\* a thousandth.
C19_ContextRecallFraction ==
    call.op = "score_context_recall" =>
        LET n == Len(call.chunks)
            d == result.value * n - Recalled(call.chunks, call.threshold) * 100000
        IN /\ ~result.raised
           /\ n = 0 => result.value = 0
           /\ result.value % 100 = 0
           /\ 2 * Abs(d) <= 100 * n

C19_Witness ==
    /\ call.op = "score_context_recall"
    /\ call.chunks = <<[score |-> 90000], [score |-> 75000], [score |-> 50000]>>
    /\ call.threshold = CONTEXT_RECALL_THRESHOLD
    /\ result.value = 66700

\* x lies in [0, 1].
UnitInterval(x) == 0 <= x /\ x <= 100000

\* C20: whatever the judge returns, the faithfulness, the answer relevancy
\* and the context recall of the EvalResult lie in [0, 1].
C20_ScoresInUnitInterval ==
    call.op = "evaluate_sample" =>
        /\ UnitInterval(result.value.faithfulness)
        /\ UnitInterval(result.value.answer_relevancy)
        /\ UnitInterval(result.value.context_recall)

\* The judge's response is a JSON object carrying a numeric score.
CarriesScore(reply) ==
    reply.kind = "object" /\ reply.score.type \in {"number", "numstr"}

\* The judge's response contains a float literal of the form [01](.digits)?.
HasScoreLiteral(reply) == \E i \in 1..Len(reply.tokens) : ScoreToken(reply.tokens[i])

\* C21: when the judge's response is neither a JSON object carrying a
\* numeric score nor text containing a float literal [01](.digits)?, the
\* metric's score is 0.0 and no exception leaves the scoring.
C21_UnparseableScoresZero ==
    (call.op \in {"score_faithfulness", "score_answer_relevancy"}
       /\ call.reply.kind # "raise"
       /\ ~CarriesScore(call.reply)
       /\ ~HasScoreLiteral(call.reply)) =>
        /\ ~result.raised
        /\ result.value = 0

\* C22: when an exception occurs inside evaluate_sample, an EvalResult is
\* still returned, its error is the text of the exception, and the
\* faithfulness computed before a failure of the relevancy scoring keeps the
\* value that was computed.
C22_PartialMetricsKept ==
    (call.op = "evaluate_sample"
       /\ (_parse_score(JudgeCall(call.replies[1])).raised
           \/ _parse_score(JudgeCall(call.replies[2])).raised)) =>
        LET f == _parse_score(JudgeCall(call.replies[1]))
            a == _parse_score(JudgeCall(call.replies[2]))
        IN /\ ~result.raised
           /\ result.value.error = Some(IF f.raised THEN f.exc ELSE a.exc)
           /\ ~f.raised => result.value.faithfulness = f.value

C22_Witness ==
    /\ call.op = "evaluate_sample"
    /\ call.replies[1].score = [type |-> "number", val |-> 85000]
    /\ call.replies[2].score.type = "null"
    /\ result.value.error = Some("TypeError")
    /\ result.value.faithfulness = 85000
    /\ result.value.answer_relevancy = 0

\* C30: the context recall of the EvalResult is score_context_recall of the
\* chunks passed in, whatever the judge answered.
C30_ContextRecallIndependent ==
    call.op = "evaluate_sample" =>
        result.value.context_recall =
            score_context_recall(IF call.chunks = None THEN <<>> ELSE call.chunks[1],
                                 CONTEXT_RECALL_THRESHOLD)

\* The position of the digit after the leftmost FY (in either case) of the
\* filename, 0 if there is no FY.
AfterFY(f) ==
    IF \E i \in 1..(Len(f) - 1) : f[i] \in {"F", "f"} /\ f[i + 1] \in {"Y", "y"}
    THEN 2 + CHOOSE i \in 1..(Len(f) - 1) :
                 /\ f[i] \in {"F", "f"} /\ f[i + 1] \in {"Y", "y"}
                 /\ \A j \in 1..(i - 1) : ~(f[j] \in {"F", "f"} /\ f[j + 1] \in {"Y", "y"})
    ELSE 0

\* The number of digits that follow the leftmost FY of the filename, counted
\* up to four: a longer run of digits begins with four digits.
DigitCount(f) ==
    IF AfterFY(f) = 0 THEN 0
    ELSE Cardinality({n \in 1..4 : DigitsAt(f, AfterFY(f), n)})

\* C23: FY followed by two digits gives 20YY, FY followed by four digits
\* gives YYYY, one digit or three digits give no year; and the
\* rows of a file that gives no year change nothing in the analysis.
C23_YearFromFilename ==
    /\ call.op = "_extract_year_from_filename" =>
         LET f == call.filename
             n == DigitCount(f)
             ds == SubSeq(f, AfterFY(f), AfterFY(f) + n - 1)
         IN result.value = IF n = 2 THEN Some(<<"2", "0">> \o ds)
                           ELSE IF n = 4 THEN Some(ds)
                           ELSE None
    /\ (call.op = "_run_financial_analysis" /\ call.csv.matching) =>
         result = _run_financial_analysis(call.query,
                     [call.csv EXCEPT !.rows =
                         SelectSeq(@, LAMBDA r : _extract_year_from_filename(r.file) # None)])

\* The positive values of the rows the year y is attributed to.
PositiveValues(rows, y) ==
    { _parse_numeric(rows[i].cell)[1] :
        i \in { j \in 1..Len(rows) :
                  /\ _extract_year_from_filename(rows[j].file) = Some(y)
                  /\ _parse_numeric(rows[j].cell) # None
                  /\ _parse_numeric(rows[j].cell)[1] > 0 } }

SynthesizerFrame(s) ==
    <<s.query, s.plan, s.sources, s.tool_outputs, s.image_path, s.error>>

\* C25: synthesizer_node returns a state whose query, intent, evidence
\* passages, tool output, image path and error are those of the state it was
\* called with; only the answer and the metrics may differ.
C25_SynthesizerFrame ==
    (pc = "returned" /\ last = "synthesizer") =>
        /\ escaped = None
        /\ SynthesizerFrame(state) = SynthesizerFrame(pre)
        /\ \A f \in DOMAIN pre :
             state[f] # pre[f] => f \in {"final_answer", "metrics"}

\* The synthesizer has run on a state that carries an error, evidence and a
\* tool output, and has written its answer and its latency.
C25_Witness ==
    /\ pc = "returned" /\ last = "synthesizer"
    /\ Truthy(pre.error)
    /\ pre.sources # <<>>
    /\ pre.tool_outputs # EmptyString
    /\ state.final_answer # pre.final_answer
    /\ state.metrics # pre.metrics

\* C26: within one request the router LLM, the embedding model, the vector
\* index and the synthesizer LLM are each requested at most once: a failed
\* request is never followed by another request to the same capability.
C26_SingleAttempt ==
    \A c \in DOMAIN calls : calls[c] <= 1

\* C27: over all the requests a process serves, in whatever order their steps
\* interleave, at most one client handle is created for the LLM, one for the
\* embedder and one for the vector index.
C27_OneHandlePerCapability ==
    \A c \in DOMAIN created : created[c] <= 1

\* The sequence f is the beginning of the sequence g.
Extends(f, g) ==
    /\ Len(f) <= Len(g)
    /\ \A i \in 1..Len(f) : g[i] = f[i]

C29_OwnChartAtImagePath ==
    runs.returned.image_path # None =>
        runs.returned.chart = Some(MetricLabel(runs.returned.query))

====
